---- MODULE Spec2Model ----
(***************************************************************************)
(* Model of the capture pipeline of src/app/capture/page.tsx: the          *)
(* CapturePage component (brightness polling, capture gating, sharpness    *)
(* check, normalisation to 1024x585, retake), and of the routes under      *)
(* src/app/api that store uploads, list them and create leads.             *)
(*                                                                         *)
(* Granularity: one action per task the browser runs to completion (a      *)
(* click handler up to its first await, an image onload/onerror callback   *)
(* together with the continuation of the await it resolves, a timer        *)
(* callback), each including the React commit it causes and the effect     *)
(* of lines 170-181 re-run by that commit.                                 *)
(*                                                                         *)
(* Numbers: the luminance arithmetic is carried out in IEEE-754 doubles,   *)
(* rounding after every operation as JavaScript does; crop coordinates     *)
(* are exact rationals [n, d].                                             *)
(***************************************************************************)
EXTENDS Integers, Sequences, FiniteSets, TLC

\* ------------------------------------------------------------------ bounds
MaxCaptures == 2
MaxEvals == 2

\* ------------------------------------------------------- program constants
BRIGHTNESS_THRESHOLD == 25
BLUR_THRESHOLD == 5
OUTPUT_W == 1024
OUTPUT_H == 585
sampleW == 64
sampleH == 48
scaledW == 160

VARIABLES
  capturedImage,    \* useState<string|null>: NoImage or the held artifact
  brightness,       \* useState<number>(255), a double
  blurWarning,      \* useState<string|null>: TRUE iff a message is set
  processing,       \* useState(false): the busy flag
  captureCount,     \* useState(0)
  showFlash,        \* useState(false)
  flashTimeouts,    \* pending setTimeout(() => setShowFlash(false), 200)
  activeIntervals,  \* number of live setInterval timers of the poll effect
  effectCleanup,    \* TRUE iff the last effect run returned a cleanup
  videoReady,       \* webcamRef.current.video exists with readyState >= 2
  evals,            \* the handleCapture invocations suspended at an await
  lastOp,           \* history: the last task that ran and its outcome
  lastStill,        \* history: the still that task evaluated, if any
  measured,         \* history: TRUE once a poll has sampled a frame
  upload,           \* what became of posting the held artifact to the
                    \* upload route: "none", "pending", "failed", "stored"
  uploads,          \* the files in public/uploads
  uploadsDir,       \* TRUE iff the directory public/uploads exists
  clock,            \* the server's time in milliseconds
  uploadResponse,   \* upload route: the last response sent
  leads,            \* leads route: the rows of table leads, in insert order
  leadsResponse,    \* leads route: the last response sent
  galleryResponse   \* gallery route: the last response sent

ctrl == <<capturedImage, brightness, blurWarning, processing, captureCount,
          showFlash, flashTimeouts, activeIntervals, effectCleanup,
          videoReady, evals>>
vars == <<capturedImage, brightness, blurWarning, processing, captureCount,
          showFlash, flashTimeouts, activeIntervals, effectCleanup,
          videoReady, evals, lastOp, lastStill, measured, upload,
          uploads, uploadsDir, clock, uploadResponse, leads, leadsResponse,
          galleryResponse>>
page == <<ctrl, lastOp, lastStill, measured, upload>>
server == <<uploads, uploadsDir, clock, uploadResponse, leads,
            leadsResponse, galleryResponse>>

\* ------------------------------------------------------------------ values
NoImage == [kind |-> "none"]
NoStill == [kind |-> "nostill"]
NoResponse == [status |-> 0]

\* source sizes a screenshot can have (width, height)
Dims == { <<1920, 1080>>, <<1024, 585>>, <<2048, 1170>>, <<640, 480>>,
          <<1080, 1920>>, <<1920, 20>>, <<1920, 4>> }

\* variance of the Laplacian responses of a still's pixel content
LapVars == { 0, 4, 5, 1040400 }

\* stills of unspecified content, known by the variance of their responses
OtherStills ==
  { [kind |-> "still", w |-> d[1], h |-> d[2], pat |-> "other", lvl |-> 0,
     lapVar |-> v] : d \in Dims, v \in LapVars }

\* stills whose down-scaled 160 x h grid is known pixel by pixel: one grey
\* level throughout ("solid"), or levels 0 and 255 alternating from pixel
\* to pixel in both directions ("checker")
PatternDims == { <<1920, 36>>, <<1920, 96>> }
SolidLevels == { 0, 128, 255 }
PatternStills ==
  { [kind |-> "still", w |-> d[1], h |-> d[2], pat |-> "solid", lvl |-> v,
     lapVar |-> 0] : d \in PatternDims, v \in SolidLevels }
  \cup { [kind |-> "still", w |-> d[1], h |-> d[2], pat |-> "checker",
           lvl |-> 0, lapVar |-> 0] : d \in PatternDims }

Stills == OtherStills \cup PatternStills

\* grey levels of the uniform frames the poll samples
Levels == { 0, 24, 25, 26, 255 }
Frames == { [r |-> v, g |-> v, b |-> v] : v \in Levels }
            \cup { [r |-> 255, g |-> 0, b |-> 0] }

Slots == 1..MaxEvals
Idle == [pc |-> "idle", still |-> NoStill]

\* ------------------------------------------------------------- rationals
RECURSIVE GCD(_, _)
GCD(a, b) == IF b = 0 THEN a ELSE GCD(b, a % b)

Abs(x) == IF x < 0 THEN 0 - x ELSE x

Rat(n, d) ==
  LET g == GCD(Abs(n), Abs(d))
      s == IF d < 0 THEN 0 - 1 ELSE 1
  IN [n |-> (s * n) \div g, d |-> (s * d) \div g]

RatMul(a, b) == Rat(a.n * b.n, a.d * b.d)
RatDiv(a, b) == Rat(a.n * b.d, a.d * b.n)
RatSub(a, b) == Rat(a.n * b.d - b.n * a.d, a.d * b.d)
RatAdd(a, b) == Rat(a.n * b.d + b.n * a.d, a.d * b.d)
RatGt(a, b) == a.n * b.d > b.n * a.d
RatLt(a, b) == a.n * b.d < b.n * a.d
RatLe(a, b) == a.n * b.d <= b.n * a.d
RatEq(a, b) == a.n * b.d = b.n * a.d

\* ------------------------------------------------------ double arithmetic
\* Every double that lines 52-54 and 80 can produce is 0 or lies in
\* [2^-4, 2^20), so it is a whole number of units of 2^-56. A double is held
\* as that whole number, written in three base-2^26 limbs, least limb first.
Limb == 67108864
Zero == <<0, 0, 0>>

\* the double of a small non-negative integer n: n * 2^56
DOf(n) == <<0, 0, 16 * n>>

RECURSIVE Pow2(_)
Pow2(k) == IF k = 0 THEN 1 ELSE 2 * Pow2(k - 1)

RECURSIVE BitLen(_)
BitLen(n) == IF n = 0 THEN 0 ELSE 1 + BitLen(n \div 2)

\* carries propagated upwards
DNorm(x) ==
  LET l1 == x[2] + (x[1] \div Limb)
  IN <<x[1] % Limb, l1 % Limb, x[3] + (l1 \div Limb)>>

\* the exact sum, before rounding
DSum(a, b) == DNorm(<<a[1] + b[1], a[2] + b[2], a[3] + b[3]>>)

DBitLen(x) ==
  IF x[3] > 0 THEN 52 + BitLen(x[3])
  ELSE IF x[2] > 0 THEN 26 + BitLen(x[2])
  ELSE BitLen(x[1])

\* x * 2^(-k) truncated and x * 2^k, for 0 <= k <= 26
ShiftRight(x, k) ==
  LET p == Pow2(k)
      m == Pow2(26 - k)
  IN <<(x[1] \div p) + (x[2] % p) * m, (x[2] \div p) + (x[3] % p) * m,
       x[3] \div p>>

ShiftLeft(x, k) ==
  LET p == Pow2(k)
      m == Pow2(26 - k)
  IN <<(x[1] % m) * p, (x[2] % m) * p + (x[1] \div m),
       x[3] * p + (x[2] \div m)>>

\* x rounded to p significant bits, to nearest, ties to even; sticky says
\* that the exact value is a little above x
RECURSIVE RoundBits(_, _, _)
RoundBits(x, p, sticky) ==
  LET k == DBitLen(x) - p
  IN IF k <= 0 THEN x
     ELSE IF k > 26
       THEN LET y == RoundBits(<<x[2], x[3], 0>>, p, sticky \/ x[1] # 0)
            IN <<0, y[1], y[2]>>
     ELSE LET q == ShiftRight(x, k)
              r == x[1] % Pow2(k)
              half == Pow2(k - 1)
              up == r > half \/ (r = half /\ (sticky \/ q[1] % 2 = 1))
              q2 == IF up THEN DNorm(<<q[1] + 1, q[2], q[3]>>) ELSE q
          IN ShiftLeft(q2, k)

\* a number rounded to a double, and to a Float32Array element
fl64(x) == RoundBits(x, 53, FALSE)
fround(x) == RoundBits(x, 24, FALSE)

\* the JavaScript operators a + b, c * n (n an 8-bit channel value), a < b
DAdd(a, b) == fl64(DSum(a, b))

RECURSIVE DTimes(_, _)
DTimes(c, n) ==
  IF n = 0 THEN Zero
  ELSE LET t == DTimes(c, n \div 2)
       IN DSum(IF n % 2 = 1 THEN c ELSE Zero, DSum(t, t))

DMul(c, n) == fl64(DTimes(c, n))

DLess(a, b) ==
  \/ a[3] < b[3]
  \/ a[3] = b[3] /\ a[2] < b[2]
  \/ a[3] = b[3] /\ a[2] = b[2] /\ a[1] < b[1]

DLeq(a, b) == a = b \/ DLess(a, b)

\* a / d for a pixel count d = o * 2^t with o odd and below 32
RECURSIVE OddPart(_)
OddPart(d) == IF d % 2 = 1 THEN d ELSE OddPart(d \div 2)

RECURSIVE TwoPart(_)
TwoPart(d) == IF d % 2 = 1 THEN 0 ELSE 1 + TwoPart(d \div 2)

DDiv(a, d) ==
  LET o == OddPart(d)
      t1 == (a[3] % o) * Limb + a[2]
      t0 == (t1 % o) * Limb + a[1]
      q == <<t0 \div o, t1 \div o, a[3] \div o>>
  IN ShiftRight(RoundBits(q, 53, t0 % o # 0), TwoPart(d))

\* the literals 0.299, 0.587 and 0.114 as doubles
W_R == <<25232932, 52613349, 4>>
W_G == <<46170896, 26306674, 9>>
W_B == <<62813897, 55297703, 1>>

\* 0.299 * R + 0.587 * G + 0.114 * B of one pixel (lines 52 and 80)
Luminance(px) ==
  DAdd(DAdd(DMul(W_R, px.r), DMul(W_G, px.g)), DMul(W_B, px.b))

\* a value that fits the three limbs
InRange(x) == x[3] < Limb

\* total after "total += lum" has run n more times; the first half of the
\* additions is evaluated before the second half starts
RECURSIVE AddTimes(_, _, _)
AddTimes(total, lum, n) ==
  IF n = 0 THEN total
  ELSE IF n = 1 THEN DAdd(total, lum)
  ELSE LET mid == AddTimes(total, lum, n \div 2)
       IN IF InRange(mid) THEN AddTimes(mid, lum, n - (n \div 2)) ELSE mid

\* ----------------------------------------------------- Brightness Sampler
\* the total divided by the width of the sample alone
SampleMean_DividesByWidth(px) ==
  DDiv(AddTimes(Zero, Luminance(px), sampleW * sampleH), sampleW)

\* the loop of lines 49-54 on a frame whose sampled pixels all equal px
SampleMean(px) ==
  DDiv(AddTimes(Zero, Luminance(px), sampleW * sampleH), sampleW * sampleH)

\* SampleMean of every frame the model draws, evaluated once
SampledScore == [f \in Frames |-> SampleMean(f)]

\* the sampler reporting 0 when it gets no scratch surface
getAverageBrightness_DarkWithoutSurface(frame, ctxOk) ==
  IF ~ctxOk THEN DOf(0) ELSE SampledScore[frame]

\* getAverageBrightness: mean of 0.299R + 0.587G + 0.114B over the 64x48
\* sample, or 255 when no 2d context can be acquired
getAverageBrightness(frame, ctxOk) ==
  IF ~ctxOk THEN DOf(255) ELSE SampledScore[frame]

\* a plausible slip: the blur floor used as the brightness floor
tooDark_WrongFloor == DLess(brightness, DOf(BLUR_THRESHOLD))

tooDark == DLess(brightness, DOf(BRIGHTNESS_THRESHOLD))

\* --------------------------------------------------- Sharpness Estimator
\* Math.round((img.height / img.width) * w)
ScaledH(img) == (2 * img.h * scaledW + img.w) \div (2 * img.w)

\* number of iterations of the loops "for y in 1..h-2, for x in 1..w-2"
LoopCount(w, h) ==
  (IF h > 2 THEN h - 2 ELSE 0) * (IF w > 2 THEN w - 2 ELSE 0)

\* the RGB of pixel (x, y) of the down-scaled grid (line 74)
GridPixel(grid, x, y) ==
  IF grid.pat = "solid" THEN [r |-> grid.lvl, g |-> grid.lvl, b |-> grid.lvl]
  ELSE IF (x + y) % 2 = 0 THEN [r |-> 0, g |-> 0, b |-> 0]
  ELSE [r |-> 255, g |-> 255, b |-> 255]

\* the Float32Array element stored for a grey pixel of level v (line 80):
\* the luminance rounded to single precision, which is a whole number
GrayElement ==
  [v \in SolidLevels |->
     CHOOSE n \in 0..255 :
       DOf(n) = fround(Luminance([r |-> v, g |-> v, b |-> v]))]

\* gray[i]
gray(grid, i) == GrayElement[GridPixel(grid, i % scaledW, i \div scaledW).r]

\* the kernel with centre weight -3
lap_CentreWeight3(grid, x, y) ==
  LET w == scaledW
  IN gray(grid, (y - 1) * w + x)
       + gray(grid, y * w + (x - 1))
       + (0 - 3) * gray(grid, y * w + x)
       + gray(grid, y * w + (x + 1))
       + gray(grid, (y + 1) * w + x)

\* the kernel reading the four diagonal neighbours
lap_Diagonal(grid, x, y) ==
  LET w == scaledW
  IN gray(grid, (y - 1) * w + (x - 1))
       + gray(grid, (y - 1) * w + (x + 1))
       + (0 - 4) * gray(grid, y * w + x)
       + gray(grid, (y + 1) * w + (x - 1))
       + gray(grid, (y + 1) * w + (x + 1))

\* lap at (x, y) (lines 89-94); the operands are whole numbers below 2^53,
\* on which the double arithmetic is exact
lap(grid, x, y) ==
  LET w == scaledW
  IN gray(grid, (y - 1) * w + x)
       + gray(grid, y * w + (x - 1))
       + (0 - 4) * gray(grid, y * w + x)
       + gray(grid, y * w + (x + 1))
       + gray(grid, (y + 1) * w + x)

\* the indices of gray that lap at (x, y) reads (lines 90-94)
lapReads(x, y) ==
  LET w == scaledW
  IN { (y - 1) * w + x, y * w + (x - 1), y * w + x, y * w + (x + 1),
       (y + 1) * w + x }

\* the k-th iteration of the loops of lines 87-88, counted from 0
CellX(k) == 1 + (k % (scaledW - 2))

\* the outer loop starting at row 0
CellY_FromRowZero(k) == k \div (scaledW - 2)

CellY(k) == 1 + (k \div (scaledW - 2))

\* sum and sumSq over the iterations lo..hi
RECURSIVE LapSum(_, _, _)
LapSum(grid, lo, hi) ==
  IF lo > hi THEN 0
  ELSE IF lo = hi THEN lap(grid, CellX(lo), CellY(lo))
  ELSE LapSum(grid, lo, (lo + hi) \div 2)
         + LapSum(grid, ((lo + hi) \div 2) + 1, hi)

RECURSIVE LapSqSum(_, _, _)
LapSqSum(grid, lo, hi) ==
  IF lo > hi THEN 0
  ELSE IF lo = hi
    THEN lap(grid, CellX(lo), CellY(lo)) * lap(grid, CellX(lo), CellY(lo))
  ELSE LapSqSum(grid, lo, (lo + hi) \div 2)
         + LapSqSum(grid, ((lo + hi) \div 2) + 1, hi)

\* lines 84-102 on a grid with interior pixels: the responses that occur
\* and sumSq / count - mean * mean
KernelStats(grid) ==
  LET count == LoopCount(scaledW, grid.h)
      mean == Rat(LapSum(grid, 0, count - 1), count)
  IN [responses |-> { lap(grid, CellX(k), CellY(k)) : k \in 0..(count - 1) },
      variance |-> RatSub(Rat(LapSqSum(grid, 0, count - 1), count),
                          RatMul(mean, mean))]

\* the grid of a pattern still, and KernelStats of each, evaluated once
GridOf(img) == [pat |-> img.pat, lvl |-> img.lvl, h |-> ScaledH(img)]
Grids == { GridOf(img) : img \in PatternStills }
PatternStats == [grid \in Grids |-> KernelStats(grid)]

\* body of img.onload in getLaplacianVariance: the value passed to resolve,
\* or "throws" when the callback raises before resolve is reached
getLaplacianVariance(img, ctxOk) ==
  LET h == ScaledH(img)
      count == LoopCount(scaledW, h)
  IN IF ~ctxOk THEN [out |-> "throws", nan |-> FALSE, val |-> Rat(0, 1)]
     ELSE IF h = 0 THEN [out |-> "throws", nan |-> FALSE, val |-> Rat(0, 1)]
     ELSE IF count = 0 THEN [out |-> "resolve", nan |-> TRUE, val |-> Rat(0, 1)]
     ELSE IF img.pat = "other"
       THEN [out |-> "resolve", nan |-> FALSE, val |-> Rat(img.lapVar, 1)]
     ELSE [out |-> "resolve", nan |-> FALSE,
           val |-> PatternStats[GridOf(img)].variance]

\* JavaScript a < b where a may be NaN
JsLess(a, b) == ~a.nan /\ RatLt(a.val, Rat(b, 1))

\* ------------------------------------------------------ Frame Normalizer
\* the crop with the comparison of the two ratios reversed
resizeImage_Reversed(img, ctxOk) ==
  LET targetRatio == Rat(OUTPUT_W, OUTPUT_H)
      srcRatio == Rat(img.w, img.h)
      wide == RatGt(targetRatio, srcRatio)
      sw == IF wide THEN RatMul(Rat(img.h, 1), targetRatio) ELSE Rat(img.w, 1)
      sx == IF wide THEN RatDiv(RatSub(Rat(img.w, 1), sw), Rat(2, 1))
                    ELSE Rat(0, 1)
      sh == IF wide THEN Rat(img.h, 1) ELSE RatDiv(Rat(img.w, 1), targetRatio)
      sy == IF wide THEN Rat(0, 1)
                    ELSE RatDiv(RatSub(Rat(img.h, 1), sh), Rat(2, 1))
  IN IF ~ctxOk THEN [kind |-> "rejected"]
     ELSE [kind |-> "artifact", w |-> OUTPUT_W, h |-> OUTPUT_H,
           sx |-> sx, sy |-> sy, sw |-> sw, sh |-> sh, from |-> img]

\* the crop with the height of a tall source multiplied by the ratio
resizeImage_MulForDiv(img, ctxOk) ==
  LET targetRatio == Rat(OUTPUT_W, OUTPUT_H)
      srcRatio == Rat(img.w, img.h)
      wide == RatGt(srcRatio, targetRatio)
      sw == IF wide THEN RatMul(Rat(img.h, 1), targetRatio) ELSE Rat(img.w, 1)
      sx == IF wide THEN RatDiv(RatSub(Rat(img.w, 1), sw), Rat(2, 1))
                    ELSE Rat(0, 1)
      sh == IF wide THEN Rat(img.h, 1) ELSE RatMul(Rat(img.w, 1), targetRatio)
      sy == IF wide THEN Rat(0, 1)
                    ELSE RatDiv(RatSub(Rat(img.h, 1), sh), Rat(2, 1))
  IN IF ~ctxOk THEN [kind |-> "rejected"]
     ELSE [kind |-> "artifact", w |-> OUTPUT_W, h |-> OUTPUT_H,
           sx |-> sx, sy |-> sy, sw |-> sw, sh |-> sh, from |-> img]

\* body of img.onload in resizeImage: the resolved artifact or a rejection
resizeImage(img, ctxOk) ==
  LET targetRatio == Rat(OUTPUT_W, OUTPUT_H)
      srcRatio == Rat(img.w, img.h)
      wide == RatGt(srcRatio, targetRatio)
      sw == IF wide THEN RatMul(Rat(img.h, 1), targetRatio) ELSE Rat(img.w, 1)
      sx == IF wide THEN RatDiv(RatSub(Rat(img.w, 1), sw), Rat(2, 1))
                    ELSE Rat(0, 1)
      sh == IF wide THEN Rat(img.h, 1) ELSE RatDiv(Rat(img.w, 1), targetRatio)
      sy == IF wide THEN Rat(0, 1)
                    ELSE RatDiv(RatSub(Rat(img.h, 1), sh), Rat(2, 1))
  IN IF ~ctxOk THEN [kind |-> "rejected"]
     ELSE [kind |-> "artifact", w |-> OUTPUT_W, h |-> OUTPUT_H,
           sx |-> sx, sy |-> sy, sw |-> sw, sh |-> sh, from |-> img]

\* --------------------------------------------------------- poll effect
\* the effect without its "if (capturedImage) return"
PollEffect_AlwaysPolls(image) ==
  LET cleared == IF effectCleanup THEN activeIntervals - 1
                                  ELSE activeIntervals
  IN <<cleared + 1, TRUE>>

\* useEffect(..., [capturedImage]): cleanup of the previous run, then the
\* body with the new capturedImage; yields <<activeIntervals, effectCleanup>>
PollEffect(image) ==
  LET cleared == IF effectCleanup THEN activeIntervals - 1
                                  ELSE activeIntervals
  IN IF image # NoImage THEN <<cleared, FALSE>>
                        ELSE <<cleared + 1, TRUE>>

\* commit of setCapturedImage(image): the effect re-runs when the value
\* changed, and the <Webcam> is unmounted while an artifact is shown
CommitImage(image) ==
  /\ capturedImage' = image
  /\ upload' = IF image = capturedImage THEN upload ELSE "none"
  /\ IF image = capturedImage
     THEN UNCHANGED <<activeIntervals, effectCleanup, videoReady>>
     ELSE /\ activeIntervals' = PollEffect(image)[1]
          /\ effectCleanup' = PollEffect(image)[2]
          /\ videoReady' = FALSE

\* ------------------------------------------------------------------ Init
InitPage ==
  /\ capturedImage = NoImage
  /\ brightness = DOf(255)
  /\ blurWarning = FALSE
  /\ processing = FALSE
  /\ captureCount = 0
  /\ showFlash = FALSE
  /\ flashTimeouts = 0
  /\ activeIntervals = 1
  /\ effectCleanup = TRUE
  /\ videoReady = FALSE
  /\ evals = [s \in Slots |-> Idle]
  /\ lastOp = "init"
  /\ lastStill = NoStill
  /\ measured = FALSE
  /\ upload = "none"

\* the routes before any request: no uploads directory, an empty table
Init ==
  /\ InitPage
  /\ uploads = {}
  /\ uploadsDir = FALSE
  /\ clock = 0
  /\ uploadResponse = NoResponse
  /\ leads = <<>>
  /\ leadsResponse = NoResponse
  /\ galleryResponse = NoResponse

\* --------------------------------------------------------------- actions
FreeSlots == { s \in Slots : evals[s].pc = "idle" }
InFlight == { s \in Slots : evals[s].pc # "idle" }

\* the guard without the busy flag: "if (tooDark) return"
captureBlocked_NoBusyGuard == tooDark

\* "if (tooDark || processing) return" (line 184)
captureBlocked == tooDark \/ processing

\* handleCapture up to its first await (lines 183-194); shot is the value
\* of webcamRef.current?.getScreenshot()
handleCapture(shot) ==
  /\ capturedImage = NoImage
  /\ captureCount < MaxCaptures
  /\ shot # NoStill <=> videoReady
  /\ UNCHANGED upload
  /\ IF captureBlocked
     THEN /\ UNCHANGED ctrl
          /\ lastOp' = "capture:ignored"
          /\ lastStill' = NoStill
          /\ UNCHANGED measured
          /\ UNCHANGED server
     ELSE IF shot = NoStill
     THEN /\ blurWarning' = FALSE
          /\ UNCHANGED <<capturedImage, brightness, processing, captureCount,
                         showFlash, flashTimeouts, activeIntervals,
                         effectCleanup, videoReady, evals>>
          /\ lastOp' = "capture:nostill"
          /\ lastStill' = NoStill
          /\ UNCHANGED measured
          /\ UNCHANGED server
     ELSE /\ FreeSlots # {}
          /\ LET s == CHOOSE f \in FreeSlots : \A g \in FreeSlots : f <= g
             IN evals' = [evals EXCEPT ![s] = [pc |-> "sharpness",
                                               still |-> shot]]
          /\ blurWarning' = FALSE
          /\ processing' = TRUE
          /\ UNCHANGED <<capturedImage, brightness, captureCount, showFlash,
                         flashTimeouts, activeIntervals, effectCleanup,
                         videoReady>>
          /\ lastOp' = "capture:started"
          /\ lastStill' = NoStill
          /\ UNCHANGED measured
          /\ UNCHANGED server

\* the blur gate testing the light again after the await
blurRejected_OrDark(variance) == JsLess(variance, BLUR_THRESHOLD) \/ tooDark

\* "variance < BLUR_THRESHOLD" (line 196)
blurRejected(variance) == JsLess(variance, BLUR_THRESHOLD)

\* the blur branch leaving the busy flag set
BlurReject_KeepsBusy(s) ==
  /\ blurWarning' = TRUE
  /\ UNCHANGED processing
  /\ evals' = [evals EXCEPT ![s] = Idle]

\* the blur branch (lines 197-199): message, busy flag cleared, return
BlurReject(s) ==
  /\ blurWarning' = TRUE
  /\ processing' = FALSE
  /\ evals' = [evals EXCEPT ![s] = Idle]

\* img.onload of getLaplacianVariance and the continuation of
\* "await getLaplacianVariance" (lines 65-104, 194-203)
SharpOnload(s, ctxOk) ==
  /\ evals[s].pc = "sharpness"
  /\ LET variance == getLaplacianVariance(evals[s].still, ctxOk)
     IN IF variance.out = "throws"
        THEN /\ evals' = [evals EXCEPT ![s].pc = "hung"]
             /\ UNCHANGED <<blurWarning, processing>>
             /\ lastOp' = "sharp:threw"
             /\ lastStill' = evals[s].still
             /\ UNCHANGED measured
             /\ UNCHANGED server
        ELSE IF blurRejected(variance)
        THEN /\ BlurReject(s)
             /\ lastOp' = "sharp:blurry"
             /\ lastStill' = evals[s].still
             /\ UNCHANGED measured
             /\ UNCHANGED server
        ELSE /\ evals' = [evals EXCEPT ![s].pc = "resize"]
             /\ UNCHANGED <<blurWarning, processing>>
             /\ lastOp' = "sharp:passed"
             /\ lastStill' = evals[s].still
             /\ UNCHANGED measured
             /\ UNCHANGED server
  /\ UNCHANGED <<upload, capturedImage, brightness, captureCount, showFlash,
                 flashTimeouts, activeIntervals, effectCleanup, videoReady>>

\* the still fails to decode in getLaplacianVariance: no onerror handler is
\* installed (lines 64-105), so the promise is never settled
SharpOnerror(s) ==
  /\ evals[s].pc = "sharpness"
  /\ evals' = [evals EXCEPT ![s].pc = "hung"]
  /\ lastOp' = "sharp:error"
  /\ lastStill' = evals[s].still
  /\ UNCHANGED measured
  /\ UNCHANGED server
  /\ UNCHANGED <<upload, capturedImage, brightness, blurWarning, processing,
                 captureCount, showFlash, flashTimeouts, activeIntervals,
                 effectCleanup, videoReady>>

\* the raw screenshot stored instead of the resized image
Accept_StoresRaw(s, resized) ==
  /\ showFlash' = TRUE
  /\ flashTimeouts' = flashTimeouts + 1
  /\ CommitImage(evals[s].still)
  /\ captureCount' = captureCount + 1
  /\ processing' = FALSE

\* the counter left alone on acceptance
Accept_NoCount(s, resized) ==
  /\ showFlash' = TRUE
  /\ flashTimeouts' = flashTimeouts + 1
  /\ CommitImage(resized)
  /\ UNCHANGED captureCount
  /\ processing' = FALSE

\* the acceptance tail leaving the busy flag set
Accept_KeepsBusy(s, resized) ==
  /\ showFlash' = TRUE
  /\ flashTimeouts' = flashTimeouts + 1
  /\ CommitImage(resized)
  /\ captureCount' = captureCount + 1
  /\ UNCHANGED processing

\* the acceptance tail of handleCapture (lines 205-211)
Accept(s, resized) ==
  /\ showFlash' = TRUE
  /\ flashTimeouts' = flashTimeouts + 1
  /\ CommitImage(resized)
  /\ captureCount' = captureCount + 1
  /\ processing' = FALSE

\* img.onload of resizeImage and the continuation of "await resizeImage"
\* (lines 117-145, 203-211); a rejection ends handleCapture by an exception
ResizeOnload(s, ctxOk) ==
  /\ evals[s].pc = "resize"
  /\ LET resized == resizeImage(evals[s].still, ctxOk)
     IN IF resized.kind = "rejected"
        THEN /\ UNCHANGED <<upload, capturedImage, processing, captureCount,
                            showFlash, flashTimeouts, activeIntervals,
                            effectCleanup, videoReady>>
             /\ lastOp' = "resize:noctx"
             /\ lastStill' = evals[s].still
             /\ UNCHANGED measured
             /\ UNCHANGED server
        ELSE /\ Accept(s, resized)
             /\ lastOp' = "resize:accepted"
             /\ lastStill' = evals[s].still
             /\ UNCHANGED measured
             /\ UNCHANGED server
  /\ evals' = [evals EXCEPT ![s] = Idle]
  /\ UNCHANGED <<brightness, blurWarning>>

\* a failed decode answered by storing the raw screenshot
ResizeOnerror_FallsBackToRaw(s) ==
  /\ evals[s].pc = "resize"
  /\ evals' = [evals EXCEPT ![s] = Idle]
  /\ lastOp' = "resize:error"
  /\ lastStill' = evals[s].still
  /\ UNCHANGED measured
  /\ UNCHANGED server
  /\ CommitImage(evals[s].still)
  /\ processing' = FALSE
  /\ UNCHANGED <<brightness, blurWarning, captureCount, showFlash,
                 flashTimeouts>>

\* img.onerror of resizeImage (line 146): the await throws
ResizeOnerror(s) ==
  /\ evals[s].pc = "resize"
  /\ evals' = [evals EXCEPT ![s] = Idle]
  /\ lastOp' = "resize:error"
  /\ lastStill' = evals[s].still
  /\ UNCHANGED measured
  /\ UNCHANGED server
  /\ UNCHANGED <<upload, capturedImage, brightness, blurWarning, processing,
                 captureCount, showFlash, flashTimeouts, activeIntervals,
                 effectCleanup, videoReady>>

\* a retake that also resets the counter
handleRetake_ResetsCount ==
  /\ capturedImage # NoImage
  /\ CommitImage(NoImage)
  /\ blurWarning' = FALSE
  /\ captureCount' = 0
  /\ lastOp' = "retake"
  /\ lastStill' = NoStill
  /\ UNCHANGED measured
  /\ UNCHANGED server
  /\ UNCHANGED <<brightness, processing, showFlash, flashTimeouts, evals>>

\* handleRetake (lines 214-217), reachable from the preview's Retake button
handleRetake ==
  /\ capturedImage # NoImage
  /\ CommitImage(NoImage)
  /\ blurWarning' = FALSE
  /\ lastOp' = "retake"
  /\ lastStill' = NoStill
  /\ UNCHANGED measured
  /\ UNCHANGED server
  /\ UNCHANGED <<brightness, processing, captureCount, showFlash,
                 flashTimeouts, evals>>

\* a tick that samples without testing the video
PollTick_NoReadyCheck(frame, ctxOk) ==
  /\ activeIntervals > 0
  /\ brightness' = getAverageBrightness(frame, ctxOk)
  /\ lastOp' = "poll:sampled"
  /\ lastStill' = NoStill
  /\ measured' = (measured \/ ctxOk)
  /\ UNCHANGED server
  /\ UNCHANGED <<upload, capturedImage, blurWarning, processing, captureCount,
                 showFlash, flashTimeouts, activeIntervals, effectCleanup,
                 videoReady, evals>>

\* one tick of the setInterval callback (lines 173-178)
PollTick(frame, ctxOk) ==
  /\ activeIntervals > 0
  /\ IF capturedImage = NoImage /\ videoReady
     THEN /\ brightness' = getAverageBrightness(frame, ctxOk)
          /\ lastOp' = "poll:sampled"
          /\ lastStill' = NoStill
          /\ measured' = (measured \/ ctxOk)
          /\ UNCHANGED server
     ELSE /\ UNCHANGED brightness
          /\ lastOp' = "poll:skipped"
          /\ lastStill' = NoStill
          /\ UNCHANGED measured
          /\ UNCHANGED server
  /\ UNCHANGED <<upload, capturedImage, blurWarning, processing, captureCount,
                 showFlash, flashTimeouts, activeIntervals, effectCleanup,
                 videoReady, evals>>

\* the flash timer also clearing the artifact
FlashTimeout_ClearsImage ==
  /\ flashTimeouts > 0
  /\ flashTimeouts' = flashTimeouts - 1
  /\ showFlash' = FALSE
  /\ CommitImage(NoImage)
  /\ lastOp' = "flash:off"
  /\ lastStill' = NoStill
  /\ UNCHANGED measured
  /\ UNCHANGED server
  /\ UNCHANGED <<brightness, blurWarning, processing, captureCount, evals>>

\* setTimeout(() => setShowFlash(false), 200) fires (line 207)
FlashTimeout ==
  /\ flashTimeouts > 0
  /\ flashTimeouts' = flashTimeouts - 1
  /\ showFlash' = FALSE
  /\ lastOp' = "flash:off"
  /\ lastStill' = NoStill
  /\ UNCHANGED measured
  /\ UNCHANGED server
  /\ UNCHANGED <<upload, capturedImage, brightness, blurWarning, processing,
                 captureCount, activeIntervals, effectCleanup, videoReady,
                 evals>>

\* the mounted <Webcam>'s video reaches readyState >= 2
VideoBecomesReady ==
  /\ capturedImage = NoImage
  /\ ~videoReady
  /\ videoReady' = TRUE
  /\ lastOp' = "video:ready"
  /\ lastStill' = NoStill
  /\ UNCHANGED measured
  /\ UNCHANGED server
  /\ UNCHANGED <<upload, capturedImage, brightness, blurWarning, processing,
                 captureCount, showFlash, flashTimeouts, activeIntervals,
                 effectCleanup, evals>>

\* the video stops delivering frames (stream ended or interrupted)
VideoStalls ==
  /\ videoReady
  /\ videoReady' = FALSE
  /\ lastOp' = "video:stalled"
  /\ lastStill' = NoStill
  /\ UNCHANGED measured
  /\ UNCHANGED server
  /\ UNCHANGED <<upload, capturedImage, brightness, blurWarning, processing,
                 captureCount, showFlash, flashTimeouts, activeIntervals,
                 effectCleanup, evals>>

Capture == \E shot \in Stills \cup {NoStill} : handleCapture(shot)
SharpLoad == \E s \in Slots, ctxOk \in BOOLEAN : SharpOnload(s, ctxOk)
SharpError == \E s \in Slots : SharpOnerror(s)
ResizeLoad == \E s \in Slots, ctxOk \in BOOLEAN : ResizeOnload(s, ctxOk)
ResizeError == \E s \in Slots : ResizeOnerror(s)
Poll == \E frame \in Frames, ctxOk \in BOOLEAN : PollTick(frame, ctxOk)

\* The preview (lines 233-255) offers Retake and a download link; the page
\* itself never posts the artifact and listens to no reply. Posting the
\* saved artifact to the upload route, and the route's reply, are therefore
\* steps of the environment that no state of the component depends on.
UploadStart ==
  /\ capturedImage # NoImage
  /\ upload \in {"none", "failed"}
  /\ upload' = "pending"
  /\ lastOp' = "upload:started"
  /\ lastStill' = NoStill
  /\ UNCHANGED measured
  /\ UNCHANGED server
  /\ UNCHANGED ctrl

UploadSettles(ok) ==
  /\ capturedImage # NoImage
  /\ upload = "pending"
  /\ upload' = IF ok THEN "stored" ELSE "failed"
  /\ lastOp' = IF ok THEN "upload:stored" ELSE "upload:failed"
  /\ lastStill' = NoStill
  /\ UNCHANGED measured
  /\ UNCHANGED server
  /\ UNCHANGED ctrl

UploadReply == \E ok \in BOOLEAN : UploadSettles(ok)

Next ==
  \/ Capture
  \/ SharpLoad
  \/ SharpError
  \/ ResizeLoad
  \/ ResizeError
  \/ handleRetake
  \/ Poll
  \/ FlashTimeout
  \/ VideoBecomesReady
  \/ VideoStalls
  \/ UploadStart
  \/ UploadReply

Spec == Init /\ [][Next]_vars

\* every image decode that was started eventually fires onload or onerror
FairSpec ==
  /\ Spec
  /\ WF_vars(SharpLoad \/ SharpError)
  /\ WF_vars(ResizeLoad \/ ResizeError)

\* ------------------------------------------------------ controller states
Live == capturedImage = NoImage /\ ~processing
Evaluating == capturedImage = NoImage /\ processing
Accepted == capturedImage # NoImage

\* ============================================================ upload route
\* POST /api/upload (src/app/api/upload/route.ts)
MaxFiles == 2

MAX_FILE_SIZE == 10 * 1024 * 1024

\* the own properties of the object literal ALLOWED_TYPES (lines 7-11)
ALLOWED_TYPES ==
  ("image/png" :> ".png") @@ ("image/jpeg" :> ".jpg")
    @@ ("image/webp" :> ".webp")

\* properties every object literal inherits from Object.prototype, with the
\* text a template string makes of their values
ObjectPrototype ==
  ("constructor" :> "function Object() { [native code] }")
    @@ ("__proto__" :> "[object Object]")

\* the value undefined, unlike every text
Undefined == "<undefined>"

\* obj[key] for a string key: own properties, then the prototype chain
Lookup(obj, key) ==
  IF key \in DOMAIN obj THEN obj[key]
  ELSE IF key \in DOMAIN ObjectPrototype THEN ObjectPrototype[key]
  ELSE Undefined

\* what a request can carry: a body that is not form data, form data with no
\* "image" field, with a text "image" field, or with a file of some type and
\* size
FileTypes ==
  { "image/png", "image/jpeg", "image/webp", "image/gif", "", "constructor",
    "__proto__" }
FileSizes == { 1, MAX_FILE_SIZE, MAX_FILE_SIZE + 1 }
UploadRequests ==
  { [kind |-> k, type |-> "", size |-> 0] :
      k \in {"notform", "missing", "text"} }
  \cup { [kind |-> "file", type |-> ty, size |-> sz] :
           ty \in FileTypes, sz \in FileSizes }

BadRequest(msg) == [status |-> 400, success |-> FALSE, error |-> msg]
ServerError == [status |-> 500, success |-> FALSE]

\* the stored files the route has written: their names start with a uuid,
\* numbered from 1 here; a file put there by other means has number 0
Written == { f \in uploads : f.name.uuid > 0 }

\* uuidv4(): an identifier no stored file carries yet
FreshUuid == Cardinality(Written) + 1

\* POST (lines 16-83); fsOk is whether mkdir and writeFile succeed: when
\* one of them fails the directory may or may not have been made
UploadPOST(req, fsOk) ==
  /\ IF req.kind = "notform"
     THEN /\ uploadResponse' = ServerError
          /\ UNCHANGED <<uploads, uploadsDir>>
     ELSE IF req.kind # "file"
     THEN /\ uploadResponse' = BadRequest("No image file provided")
          /\ UNCHANGED <<uploads, uploadsDir>>
     ELSE LET ext == Lookup(ALLOWED_TYPES, req.type)
              filename == [uuid |-> FreshUuid, ext |-> ext]
          IN IF ext = Undefined
             THEN /\ uploadResponse' = BadRequest("Unsupported file type")
                  /\ UNCHANGED <<uploads, uploadsDir>>
             ELSE IF req.size > MAX_FILE_SIZE
             THEN /\ uploadResponse' = BadRequest("File too large")
                  /\ UNCHANGED <<uploads, uploadsDir>>
             ELSE IF ~fsOk
             THEN /\ uploadResponse' = ServerError
                  /\ uploadsDir' \in {uploadsDir, TRUE}
                  /\ UNCHANGED uploads
             ELSE /\ Cardinality(Written) < MaxFiles
                  /\ uploads' = uploads
                       \cup {[name |-> filename, size |-> req.size,
                              created |-> clock]}
                  /\ uploadsDir' = TRUE
                  /\ uploadResponse' =
                       [status |-> 201, success |-> TRUE,
                        filename |-> filename,
                        url |-> <<"/uploads/", filename>>,
                        size |-> req.size, type |-> req.type]
  /\ UNCHANGED <<page, clock, leads, leadsResponse, galleryResponse>>

UploadNext ==
  \E req \in UploadRequests, fsOk \in BOOLEAN : UploadPOST(req, fsOk)

UploadSpec == Init /\ [][UploadNext]_vars

\* ============================================================= leads route
\* POST /api/leads (src/app/api/leads/route.ts) on the table created by
\* scripts/init-db.ts
MaxLeads == 2

\* a property the JSON object does not have, and the SQL NULL
Absent == "<absent>"
Null == "<null>"

\* what request.json() can make of the body: nothing (it throws), the JSON
\* value null, or an object with some of the five properties
LeadObjects ==
  { [kind |-> "object", name |-> n, email |-> e, phone |-> ph,
     company |-> c, image_url |-> u] :
      n \in {Absent, "", "Ann"}, e \in {Absent, "", "ann@example.com"},
      ph \in {Absent, "", "555-0100"}, c \in {Absent, "Acme"},
      u \in {Absent, "/uploads/card.png"} }
LeadBodies ==
  { [kind |-> k, name |-> Absent, email |-> Absent, phone |-> Absent,
     company |-> Absent, image_url |-> Absent] : k \in {"malformed", "null"} }
  \cup LeadObjects

\* !v for a property that is absent or a string
Falsy(v) == v = Absent \/ v = ""

\* v ?? null
OrNull(v) == IF v = Absent THEN Null ELSE v

\* POST (lines 25-76); dbOk is whether pool.execute resolves
LeadsPOST(body, dbOk) ==
  /\ IF body.kind \in {"malformed", "null"}
     THEN /\ leadsResponse' = ServerError
          /\ UNCHANGED leads
     ELSE IF Falsy(body.name) /\ Falsy(body.email) /\ Falsy(body.phone)
     THEN /\ leadsResponse' = BadRequest("At least one is required")
          /\ UNCHANGED leads
     ELSE IF ~dbOk
     THEN /\ leadsResponse' = ServerError
          /\ UNCHANGED leads
     ELSE /\ Len(leads) < MaxLeads
          /\ leads' = Append(leads,
               [id |-> Len(leads) + 1, name |-> OrNull(body.name),
                email |-> OrNull(body.email), phone |-> OrNull(body.phone),
                company |-> OrNull(body.company),
                image_url |-> OrNull(body.image_url)])
          /\ leadsResponse' =
               [status |-> 201, success |-> TRUE,
                lead |-> [id |-> Len(leads) + 1, name |-> body.name,
                          email |-> body.email, phone |-> body.phone,
                          company |-> body.company,
                          image_url |-> body.image_url]]
  /\ UNCHANGED <<page, uploads, uploadsDir, clock, uploadResponse,
                 galleryResponse>>

LeadsNext ==
  \E body \in LeadBodies, dbOk \in BOOLEAN : LeadsPOST(body, dbOk)

LeadsSpec == Init /\ [][LeadsNext]_vars

\* =========================================================== gallery route
\* GET /api/gallery (src/app/api/gallery/route.ts) on the directory the
\* upload route writes to
MaxClock == 2

ALLOWED_EXT == { ".png", ".jpg", ".jpeg", ".webp" }

\* path.extname of a stored name, by the text that follows its dot-free
\* stem: that text when it starts with the name's only dot, "" when the
\* name has no dot
ExtOfTail ==
  (".png" :> ".png") @@ (".jpg" :> ".jpg") @@ (".jpeg" :> ".jpeg")
    @@ (".webp" :> ".webp") @@ (".JPEG" :> ".JPEG") @@ (".txt" :> ".txt")
    @@ ("function Object() { [native code] }" :> "")
    @@ ("[object Object]" :> "")
extname(name) == ExtOfTail[name.ext]

\* String.prototype.toLowerCase on the extensions that occur
toLowerCase(s) == IF s = ".JPEG" THEN ".jpeg" ELSE s

\* files the directory can hold that the upload route did not write
OtherFiles ==
  { [name |-> [uuid |-> 0, ext |-> e], size |-> 7, created |-> 0] :
      e \in { ".JPEG", ".txt" } }

\* readdir returns the entries in no particular order: two of the orders
\* it can return them in, one the reverse of the other, so that every two
\* entries come both ways round
RECURSIVE Listed(_)
Listed(S) ==
  IF S = {} THEN <<>>
  ELSE LET f == CHOOSE g \in S : TRUE IN <<f>> \o Listed(S \ {f})
Reverse(files) == [i \in 1..Len(files) |-> files[Len(files) + 1 - i]]
Orders(S) == { Listed(S), Reverse(Listed(S)) }

\* the entry pushed for a listed file (lines 27-32); createdAt stands for
\* the ISO text of the birthtime, which keeps its milliseconds
ImageEntry(f) ==
  [filename |-> f.name, url |-> <<"/uploads/", f.name>>, size |-> f.size,
   createdAt |-> f.created]

\* the loop of lines 20-33 over the first n entries
RECURSIVE PushImages(_, _)
PushImages(files, n) ==
  IF n = 0 THEN <<>>
  ELSE IF toLowerCase(extname(files[n].name)) \in ALLOWED_EXT
    THEN Append(PushImages(files, n - 1), ImageEntry(files[n]))
  ELSE PushImages(files, n - 1)

\* the comparator of line 36 with the two dates swapped
newestFirst_Swapped(a, b) == a.createdAt - b.createdAt

\* the comparator of line 36: negative when b is older than a
newestFirst(a, b) == b.createdAt - a.createdAt

\* Array.prototype.sort, which is stable: x goes behind every element the
\* comparator does not place after it
InsertSorted(sorted, x) ==
  LET k == Cardinality({ i \in 1..Len(sorted) :
                           newestFirst(sorted[i], x) <= 0 })
  IN SubSeq(sorted, 1, k) \o <<x>> \o SubSeq(sorted, k + 1, Len(sorted))

RECURSIVE SortImages(_, _)
SortImages(images, n) ==
  IF n = 0 THEN <<>>
  ELSE InsertSorted(SortImages(images, n - 1), images[n])

\* GET (lines 8-44); files is what readdir returns where the directory
\* exists (its entries in some order), statOk whether stat succeeds on the
\* listed files
GalleryGET(files, statOk) ==
  /\ UNCHANGED <<page, uploads, uploadsDir, clock, uploadResponse, leads,
                 leadsResponse>>
  /\ Len(files) = Cardinality(uploads)
  /\ { files[i] : i \in 1..Len(files) } = uploads
  /\ IF ~uploadsDir
     THEN galleryResponse' = [status |-> 200, success |-> TRUE,
                              images |-> <<>>]
     ELSE LET pushed == PushImages(files, Len(files))
              images == SortImages(pushed, Len(pushed))
          IN IF ~statOk /\ pushed # <<>>
             THEN galleryResponse' = ServerError
             ELSE galleryResponse' = [status |-> 200, success |-> TRUE,
                                      images |-> images,
                                      total |-> Len(images)]

\* the server's clock advances
ClockTick ==
  /\ clock < MaxClock
  /\ clock' = clock + 1
  /\ UNCHANGED <<page, uploads, uploadsDir, uploadResponse, leads,
                 leadsResponse, galleryResponse>>

\* the directory before the first request: absent, or holding any files
GalleryInit ==
  /\ InitPage
  /\ uploads \in SUBSET OtherFiles
  /\ uploadsDir \in (IF uploads = {} THEN BOOLEAN ELSE {TRUE})
  /\ clock = 0
  /\ uploadResponse = NoResponse
  /\ leads = <<>>
  /\ leadsResponse = NoResponse
  /\ galleryResponse = NoResponse

\* the uploads that fill the directory: one-byte files of these types
StoreRequests ==
  { req \in UploadRequests :
      /\ req.kind = "file"
      /\ req.size = 1
      /\ req.type \in { "image/png", "image/jpeg", "image/webp",
                        "constructor" } }

StoreUpload ==
  \E req \in StoreRequests, fsOk \in BOOLEAN : UploadPOST(req, fsOk)

GalleryList ==
  \E files \in Orders(uploads), statOk \in BOOLEAN :
    GalleryGET(files, statOk)

GalleryNext ==
  \/ StoreUpload
  \/ GalleryList
  \/ ClockTick

GallerySpec == GalleryInit /\ [][GalleryNext]_vars

\* ----------------------------------------------------------------- claims
DarkLevel == DLess(brightness, DOf(BRIGHTNESS_THRESHOLD))

\* C1: a capture trigger issued while the BrightnessScore is below 25 causes
\* no transition: the controller stays in Live, no evaluation starts, and the
\* busy flag, held artifact, blur message and capture counter (indeed every
\* piece of controller state) are unchanged.
C1_DarkTriggerIsNoOp ==
  [][(Capture /\ DarkLevel) =>
       /\ UNCHANGED ctrl
       /\ InFlight' = InFlight
       /\ (Live => Live')]_vars

\* a trigger was issued in Live while the score was below the floor
C1_Witness ==
  /\ lastOp = "capture:ignored"
  /\ DarkLevel
  /\ Live
  /\ videoReady

Score(img) == getLaplacianVariance(img, TRUE)
YieldsBelowFloor(img) ==
  /\ Score(img).out = "resolve" /\ ~Score(img).nan
  /\ RatLt(Score(img).val, Rat(BLUR_THRESHOLD, 1))
YieldsAtLeastFloor(img) ==
  /\ Score(img).out = "resolve" /\ ~Score(img).nan
  /\ RatLe(Rat(BLUR_THRESHOLD, 1), Score(img).val)

NormalizeFailed == lastOp \in {"resize:error", "resize:noctx"}

\* C3: every evaluation that starts eventually completes: from Evaluating
\* the controller always eventually has the busy flag cleared (Live or
\* Accepted), whatever the decodes and the normalization do, given that
\* every decode eventually fires onload or onerror.
C3_EvaluationCompletes == (Evaluating ~> ~processing)

\* C4: when normalization fails (decode failure or no rendering surface) the
\* controller reverts to Live - busy flag cleared, no artifact - and a later
\* trigger with adequate brightness starts a new evaluation.
C4_NormalizeFailureRevertsToLive ==
  /\ [](NormalizeFailed => Live)
  /\ [][(NormalizeFailed /\ Capture /\ ~DarkLevel /\ videoReady)
          => lastOp' = "capture:started"]_vars

\* C5: the held artifact is either empty or an output of the Frame
\* Normalizer of exactly 1024x585, whatever the source size and orientation;
\* a raw still is never stored.
C5_ArtifactIsNormalized ==
  \/ capturedImage = NoImage
  \/ /\ capturedImage.kind = "artifact"
     /\ capturedImage.w = 1024
     /\ capturedImage.h = 585

\* an artifact made from a portrait still is held
C5_Witness ==
  /\ capturedImage # NoImage
  /\ capturedImage.kind = "artifact"
  /\ capturedImage.from.h > capturedImage.from.w

\* the crop rectangle of an artifact, against the size of its source
CropOfWide(a) ==
  /\ RatEq(a.sy, Rat(0, 1))
  /\ RatEq(a.sh, Rat(a.from.h, 1))
  /\ RatEq(a.sw, Rat(a.from.h * 1024, 585))
  /\ RatEq(a.sx, RatSub(Rat(a.from.w, 1), RatAdd(a.sx, a.sw)))
CropOfTall(a) ==
  /\ RatEq(a.sx, Rat(0, 1))
  /\ RatEq(a.sw, Rat(a.from.w, 1))
  /\ RatEq(a.sh, Rat(a.from.w * 585, 1024))
  /\ RatEq(a.sy, RatSub(Rat(a.from.h, 1), RatAdd(a.sy, a.sh)))
CropInside(a) ==
  /\ RatLe(Rat(0, 1), a.sx)
  /\ RatLe(Rat(0, 1), a.sy)
  /\ RatLe(RatAdd(a.sx, a.sw), Rat(a.from.w, 1))
  /\ RatLe(RatAdd(a.sy, a.sh), Rat(a.from.h, 1))
  /\ RatEq(RatDiv(a.sw, a.sh), Rat(1024, 585))

\* C6: if srcW/srcH > 1024/585 the crop keeps the full height, has width
\* srcH*1024/585 and equal left and right margins; otherwise it keeps the
\* full width, has height srcW*585/1024 and equal top and bottom margins; in
\* both cases it lies inside the source and sw/sh = 1024/585.
C6_CentreCrop ==
  (capturedImage # NoImage /\ capturedImage.kind = "artifact") =>
    /\ IF capturedImage.from.w * 585 > 1024 * capturedImage.from.h
       THEN CropOfWide(capturedImage)
       ELSE CropOfTall(capturedImage)
    /\ CropInside(capturedImage)

\* an artifact cropped from a wider source, with a positive side margin
C6_Witness ==
  /\ capturedImage # NoImage
  /\ capturedImage.kind = "artifact"
  /\ capturedImage.from.w * 585 > 1024 * capturedImage.from.h
  /\ capturedImage.sx.n > 0

\* C7: an evaluation that yields a SharpnessScore below 5 returns the
\* controller to Live with the retry message set, the busy flag cleared, no
\* artifact and polling still active, and the next trigger (adequate light,
\* frame available) is accepted.
C7_BlurRejectReturnsToLive ==
  /\ [][\A s \in Slots :
          (SharpOnload(s, TRUE) /\ YieldsBelowFloor(evals[s].still)) =>
            /\ lastOp' = "sharp:blurry"
            /\ Live' /\ blurWarning'
            /\ activeIntervals' = 1
            /\ InFlight' = {}
            /\ videoReady' = videoReady]_vars
  /\ [][(lastOp = "sharp:blurry" /\ Capture /\ ~DarkLevel /\ videoReady)
          => (lastOp' = "capture:started" /\ Evaluating')]_vars

\* a blur rejection has just happened
C7_Witness ==
  /\ lastOp = "sharp:blurry"
  /\ blurWarning
  /\ Live

\* C8: gating is by floors only: an artifact is held only if the score of
\* its still is at or above 5; every score at or above 5 passes on to
\* normalization; a BrightnessScore of 25 or more never blocks the trigger.
C8_FloorsOnly ==
  /\ [](capturedImage # NoImage => YieldsAtLeastFloor(capturedImage.from))
  /\ [][\A s \in Slots :
          (SharpOnload(s, TRUE) /\ YieldsAtLeastFloor(evals[s].still))
            => evals'[s].pc = "resize"]_vars
  /\ [][(Capture /\ ~DarkLevel /\ ~processing /\ videoReady)
          => lastOp' = "capture:started"]_vars

\* C9: the polling timer is active exactly when no artifact is held (torn
\* down on entering Accepted, restarted on retake), never more than one timer
\* is active, and the BrightnessScore never changes while an artifact is held.
C9_PollingIffNoArtifact ==
  /\ [](activeIntervals = (IF capturedImage = NoImage THEN 1 ELSE 0))
  /\ [][capturedImage # NoImage => brightness' = brightness]_vars

\* polling has been restarted by a retake
C9_Witness ==
  /\ lastOp = "retake"
  /\ activeIntervals = 1
  /\ captureCount > 0

\* C10: the capture counter starts at 0, never decreases, and rises by
\* exactly 1 on each Evaluating -> Accepted transition and on no other step.
C10_CounterCountsAcceptances ==
  /\ captureCount = 0
  /\ [][/\ captureCount' # captureCount =>
             (captureCount' = captureCount + 1 /\ Evaluating /\ Accepted')
        /\ (Evaluating /\ Accepted') => captureCount' = captureCount + 1]_vars

\* a second capture has just been accepted
C10_Witness ==
  /\ captureCount = 2
  /\ lastOp = "resize:accepted"

\* C11: a retake in Accepted moves the controller to Live with the artifact
\* discarded and the blur message cleared, and leaves the capture counter,
\* the busy flag and the last BrightnessScore unchanged.
C11_RetakeFrame ==
  [][handleRetake =>
       /\ Accepted
       /\ Live'
       /\ capturedImage' = NoImage
       /\ ~blurWarning'
       /\ captureCount' = captureCount
       /\ processing' = processing
       /\ brightness' = brightness]_vars

\* a retake has run after one capture, with a sampled score kept
C11_Witness ==
  /\ lastOp = "retake"
  /\ Live
  /\ captureCount = 1
  /\ brightness = SampledScore[[r |-> 26, g |-> 26, b |-> 26]]

FrameReady == capturedImage = NoImage /\ videoReady

\* C13: a poll tick that fires while the live video is absent or not ready
\* emits no score: the BrightnessScore keeps its value, no other controller
\* state changes and no message is surfaced.
C13_UnreadyTickSkipped ==
  [][(Poll /\ ~FrameReady) =>
       /\ brightness' = brightness
       /\ UNCHANGED ctrl
       /\ lastOp' = "poll:skipped"]_vars

\* a tick was skipped after an earlier tick had sampled a dark frame
C13_Witness ==
  /\ lastOp = "poll:skipped"
  /\ ~videoReady
  /\ brightness = DOf(24)

EndedWithoutAcceptance ==
  lastOp \in {"sharp:blurry", "resize:error", "resize:noctx",
              "capture:nostill"}

\* C14: a capture attempt that ends without acceptance (blur rejection,
\* decode failure, no rendering surface, no still) leaves the artifact empty
\* and the counter unchanged; the artifact is set only by a normalization
\* that completed successfully.
C14_NoPartialArtifact ==
  /\ [][((Capture \/ SharpLoad \/ ResizeLoad \/ ResizeError)
           /\ EndedWithoutAcceptance') =>
          /\ capturedImage = NoImage
          /\ capturedImage' = NoImage
          /\ captureCount' = captureCount]_vars
  /\ [][(capturedImage' # capturedImage /\ capturedImage' # NoImage) =>
          \E s \in Slots :
            /\ evals[s].pc = "resize"
            /\ capturedImage' = resizeImage(evals[s].still, TRUE)]_vars

\* normalization has just failed for want of a rendering surface
C14_Witness ==
  /\ lastOp = "resize:noctx"
  /\ capturedImage = NoImage
  /\ captureCount = 0

SameRatio(img) == img.w * OUTPUT_H = OUTPUT_W * img.h

\* C18: normalizing a 1024x585 source is a no-op crop (0, 0, 1024, 585)
\* with scale factor 1 and a 1024x585 output; for any source of ratio
\* 1024/585 nothing is cropped on either axis.
C18_SameRatioNoCrop ==
  (capturedImage # NoImage /\ capturedImage.kind = "artifact"
     /\ SameRatio(capturedImage.from)) =>
    /\ RatEq(capturedImage.sx, Rat(0, 1))
    /\ RatEq(capturedImage.sy, Rat(0, 1))
    /\ RatEq(capturedImage.sw, Rat(capturedImage.from.w, 1))
    /\ RatEq(capturedImage.sh, Rat(capturedImage.from.h, 1))
    /\ capturedImage.w = 1024 /\ capturedImage.h = 585
    /\ (capturedImage.from.w = 1024 =>
          /\ RatEq(RatDiv(Rat(capturedImage.w, 1), capturedImage.sw),
                   Rat(1, 1))
          /\ RatEq(RatDiv(Rat(capturedImage.h, 1), capturedImage.sh),
                   Rat(1, 1)))

\* an artifact made from a source that is already 1024x585
C18_Witness ==
  /\ capturedImage # NoImage
  /\ capturedImage.kind = "artifact"
  /\ capturedImage.from.w = 1024
  /\ capturedImage.from.h = 585

Uniform(v) == [r |-> v, g |-> v, b |-> v]

\* 2^-44, sixteen units in the last place of a double just below 256
Tolerance == <<4096, 0, 0>>

Near(x, v) ==
  /\ DLeq(x, DSum(DOf(v), Tolerance))
  /\ DLeq(DOf(v), DSum(x, Tolerance))

\* C15 as stated: a frame whose pixels are all (v, v, v) scores exactly v,
\* for every level v.
C15_UniformScoresExactly ==
  [][\A v \in Levels :
       (FrameReady /\ PollTick(Uniform(v), TRUE)) =>
         brightness' = DOf(v)]_vars

\* C15 amended: a frame whose pixels are all (v, v, v) scores v up to the
\* rounding of the double arithmetic (within 2^-44), exactly 0 for black and
\* exactly 255 for white; every score lies within [0, 255].
C15_UniformScoresNearly ==
  /\ [][\A v \in Levels :
          (FrameReady /\ PollTick(Uniform(v), TRUE)) =>
            /\ Near(brightness', v)
            /\ (v \in {0, 255} => brightness' = DOf(v))]_vars
  /\ [](DLeq(Zero, brightness) /\ DLeq(brightness, DOf(255)))

\* a uniform frame of level 26 was sampled and scored just below 26
C15_Witness ==
  /\ lastOp = "poll:sampled"
  /\ brightness = SampledScore[Uniform(26)]
  /\ DLess(brightness, DOf(26))
  /\ ~tooDark

HasInterior(img) == LoopCount(scaledW, ScaledH(img)) >= 1

\* C16: a solid-colour still with at least one interior pixel has every
\* Laplacian response 0 and a SharpnessScore of exactly 0, and is rejected
\* as blurry.
C16_SolidIsBlurry ==
  [][\A s \in Slots :
       (SharpOnload(s, TRUE) /\ evals[s].still.pat = "solid"
          /\ HasInterior(evals[s].still)) =>
         /\ PatternStats[GridOf(evals[s].still)].responses = {0}
         /\ ~Score(evals[s].still).nan
         /\ Score(evals[s].still).val = Rat(0, 1)
         /\ lastOp' = "sharp:blurry"
         /\ blurWarning'
         /\ capturedImage' = NoImage]_vars

\* a uniformly white still has just been rejected as blurry
C16_Witness ==
  /\ lastOp = "sharp:blurry"
  /\ lastStill # NoStill
  /\ lastStill.pat = "solid"
  /\ lastStill.lvl = 255

\* C17: a still whose down-scaled grid is a one-pixel checkerboard of 0 and
\* 255 has every interior response +1020 or -1020 and a SharpnessScore far
\* above the floor of 5; it passes the gate and, normalization succeeding,
\* is accepted.
C17_CheckerIsSharp ==
  /\ [][\A s \in Slots :
          (SharpOnload(s, TRUE) /\ evals[s].still.pat = "checker") =>
            /\ PatternStats[GridOf(evals[s].still)].responses
                 = {1020, 0 - 1020}
            /\ ~Score(evals[s].still).nan
            /\ Score(evals[s].still).val = Rat(1020 * 1020, 1)
            /\ ~blurRejected(Score(evals[s].still))
            /\ lastOp' = "sharp:passed"
            /\ evals'[s].pc = "resize"]_vars
  /\ [][\A s \in Slots :
          (ResizeOnload(s, TRUE) /\ evals[s].still.pat = "checker") =>
            /\ lastOp' = "resize:accepted"
            /\ Accepted'
            /\ capturedImage'.from = evals[s].still]_vars

\* the artifact made from a checkerboard still is held
C17_Witness ==
  /\ capturedImage # NoImage
  /\ capturedImage.from.pat = "checker"
  /\ lastOp = "resize:accepted"

Discarded == capturedImage # NoImage /\ capturedImage' # capturedImage

\* C12 as stated: the held artifact is not discarded until the upload
\* collaborator has confirmed success.
C12_HeldUntilConfirmed ==
  [][Discarded => upload = "stored"]_vars

\* C12 amended: the held artifact is discarded by an explicit retake only,
\* whether or not an upload has been confirmed; no step of an upload and no
\* other task changes the controller's state or the artifact, so after a
\* failed or not-yet-confirmed upload the artifact is still held and the
\* upload alone can be started again.
C12_HeldUntilRetake ==
  /\ [][Discarded => (handleRetake /\ capturedImage' = NoImage)]_vars
  /\ [][(UploadStart \/ UploadReply) => UNCHANGED ctrl]_vars
  /\ [](upload \in {"pending", "failed", "stored"} => Accepted)
  /\ [](upload = "failed" => ENABLED UploadStart)

\* an upload of the held artifact has just failed and the artifact is held
C12_Witness ==
  /\ lastOp = "upload:failed"
  /\ upload = "failed"
  /\ Accepted

ValidUpload(req) ==
  /\ req.kind = "file"
  /\ req.type \in {"image/png", "image/jpeg", "image/webp"}
  /\ req.size <= MAX_FILE_SIZE

\* C19: the upload handler stores the file and answers success with the
\* filename, URL and size only for a file of type PNG, JPEG or WEBP of at
\* most 10 MB (exactly 10 MB included); a missing file, any other type or a
\* larger file is answered 400 and nothing is written.
C19_UploadValidation ==
  [][\A req \in UploadRequests, fsOk \in BOOLEAN :
       UploadPOST(req, fsOk) =>
         /\ (uploadResponse'.status = 201 \/ uploads' # uploads)
              => ValidUpload(req)
         /\ ~ValidUpload(req)
              => (uploadResponse'.status = 400 /\ uploads' = uploads)
         /\ (ValidUpload(req) /\ fsOk)
              => (uploadResponse'.status = 201 /\ uploads' # uploads)]_vars

NonePresent(body) ==
  \A f \in {"name", "email", "phone"} : body[f] \in {Absent, ""}

\* C20: a create request with none of name, email and phone present (absent
\* or empty) is answered 400 and inserts no row; with at least one present
\* exactly one row is inserted and the response carries its auto-generated
\* id; company and the artifact reference are optional. Stated for every
\* body that is well-formed JSON, with the database accepting the insert.
C20_LeadCreate ==
  [][\A body \in LeadBodies :
       (body.kind # "malformed" /\ LeadsPOST(body, TRUE)) =>
         IF NonePresent(body)
         THEN leadsResponse'.status = 400 /\ leads' = leads
         ELSE /\ Len(leads') = Len(leads) + 1
              /\ leadsResponse'.status = 201
              /\ leadsResponse'.lead.id = leads'[Len(leads')].id
              /\ \A i \in 1..Len(leads) : leads[i].id # leadsResponse'.lead.id
     ]_vars

\* C22: for every still with positive width and height, including stills so
\* wide that the down-scaled grid has no interior pixel, the evaluation
\* yields a SharpnessScore that is a defined number at or above 0, and the
\* blur gate decides by comparing that number with 5: rejected as blurry
\* when it is below 5, passed on to normalization otherwise.
C22_ScoreDefined ==
  [][\A s \in Slots :
       (SharpOnload(s, TRUE) /\ evals[s].still.w > 0
          /\ evals[s].still.h > 0) =>
         /\ Score(evals[s].still).out = "resolve"
         /\ ~Score(evals[s].still).nan
         /\ RatLe(Rat(0, 1), Score(evals[s].still).val)
         /\ lastOp' = (IF RatLt(Score(evals[s].still).val,
                                Rat(BLUR_THRESHOLD, 1))
                       THEN "sharp:blurry" ELSE "sharp:passed")]_vars

\* the 3x3 kernel, rows top to bottom
Kernel == << <<0, 1, 0>>, <<1, 0 - 4, 1>>, <<0, 1, 0>> >>
Offsets == { 0 - 1, 0, 1 }

\* the kernel laid over the pixel (x, y) of the grid
Convolve(grid, x, y) ==
  LET term(dx, dy) ==
        Kernel[dy + 2][dx + 2] * gray(grid, (y + dy) * scaledW + (x + dx))
  IN term(0 - 1, 0 - 1) + term(0, 0 - 1) + term(1, 0 - 1)
       + term(0 - 1, 0) + term(0, 0) + term(1, 0)
       + term(0 - 1, 1) + term(0, 1) + term(1, 1)

\* the grid positions under the non-zero weights of the kernel at (x, y)
KernelReads(x, y) ==
  { (y + o[2]) * scaledW + (x + o[1]) :
      o \in { d \in Offsets \X Offsets : Kernel[d[2] + 2][d[1] + 2] # 0 } }

\* pixels of a 160 x h grid: those with all four neighbours, and the rest
Interior(h) == { <<x, y>> : x \in 1..(scaledW - 2), y \in 1..(h - 2) }
Border(h) ==
  { c \in (0..(scaledW - 1)) \X (0..(h - 1)) :
      c[1] \in {0, scaledW - 1} \/ c[2] \in {0, h - 1} }

\* the pixels the loops of the estimator visit on a grid of height h
Visited(h) ==
  { <<CellX(k), CellY(k)>> : k \in 0..(LoopCount(scaledW, h) - 1) }

\* what the loops do on each grid height that occurs, evaluated once
Heights == { ScaledH(img) : img \in Stills }
LoopTrace ==
  [h \in Heights |->
     [count |-> Cardinality(Visited(h)),
      interiorOnly |-> Visited(h) = Interior(h),
      borderFree |-> Visited(h) \cap Border(h) = {},
      inBuffer |-> \A c \in Visited(h) :
                     /\ lapReads(c[1], c[2]) \subseteq 0..(scaledW * h - 1)
                     /\ lapReads(c[1], c[2]) = KernelReads(c[1], c[2])]]

\* sum of the p-th powers of the kernel laid over the interior pixels of
\* row y from column lo to column hi, and over the rows lo..hi
RECURSIVE RowPower(_, _, _, _, _)
RowPower(grid, y, lo, hi, p) ==
  IF lo > hi THEN 0
  ELSE IF lo = hi
    THEN IF p = 1 THEN Convolve(grid, lo, y)
         ELSE Convolve(grid, lo, y) * Convolve(grid, lo, y)
  ELSE RowPower(grid, y, lo, (lo + hi) \div 2, p)
         + RowPower(grid, y, ((lo + hi) \div 2) + 1, hi, p)

RECURSIVE GridPower(_, _, _, _)
GridPower(grid, lo, hi, p) ==
  IF lo > hi THEN 0
  ELSE IF lo = hi THEN RowPower(grid, lo, 1, scaledW - 2, p)
  ELSE GridPower(grid, lo, (lo + hi) \div 2, p)
         + GridPower(grid, ((lo + hi) \div 2) + 1, hi, p)

\* mean(response^2) - mean(response)^2 over the interior of each pattern
\* grid, evaluated once
InteriorVariance ==
  [grid \in Grids |->
     LET n == (scaledW - 2) * (grid.h - 2)
         mean == Rat(GridPower(grid, 1, grid.h - 2, 1), n)
     IN RatSub(Rat(GridPower(grid, 1, grid.h - 2, 2), n),
               RatMul(mean, mean))]

\* C23: on the down-scaled grid of width 160 and height h = round(srcH /
\* srcW * 160) the estimator lays the kernel [[0,1,0],[1,-4,1],[0,1,0]] over
\* exactly the interior pixels, (w-2)(h-2) of them, never over a border
\* pixel, reads no index outside the w*h grayscale buffer, and yields
\* mean(response^2) - mean(response)^2 over those responses. The count is
\* stated for h >= 2 and the value for grids that have an interior pixel.
C23_KernelOnInterior ==
  [][\A s \in Slots :
       (SharpOnload(s, TRUE) /\ ScaledH(evals[s].still) >= 1) =>
         LET img == evals[s].still
             h == ScaledH(img)
         IN /\ LoopTrace[h].interiorOnly
            /\ h >= 2 => LoopTrace[h].count = (scaledW - 2) * (h - 2)
            /\ LoopTrace[h].borderFree
            /\ LoopTrace[h].inBuffer
            /\ (img.pat # "other" /\ HasInterior(img)) =>
                 /\ \A c \in Interior(h) :
                      lap(GridOf(img), c[1], c[2])
                        = Convolve(GridOf(img), c[1], c[2])
                 /\ ~Score(img).nan
                 /\ Score(img).val = InteriorVariance[GridOf(img)]]_vars

\* the estimator has just run over the 160 x 8 grid of a checkerboard still
C23_Witness ==
  /\ lastOp = "sharp:passed"
  /\ lastStill # NoStill
  /\ lastStill.pat = "checker"
  /\ ScaledH(lastStill) = 8
  /\ LoopTrace[8].count = 948

\* the fields an evaluation in flight reads or writes
evaluation == <<evals, processing, capturedImage, blurWarning, captureCount>>

\* C24: poll ticks interleave with an evaluation in flight without affecting
\* it. A tick during Evaluating changes the BrightnessScore at most; the
\* evaluation's outcome is determined by the still taken at the trigger
\* (its SharpnessScore, then the normalization) whatever the BrightnessScore
\* is by then; so a score that dropped below 25 during Evaluating neither
\* aborts the evaluation nor prevents its acceptance.
C24_PollsDoNotAffectEvaluation ==
  /\ [][(Poll /\ Evaluating) => (UNCHANGED evaluation /\ Evaluating')]_vars
  /\ [][\A s \in Slots :
          (SharpOnload(s, TRUE) /\ YieldsAtLeastFloor(evals[s].still))
            => (lastOp' = "sharp:passed" /\ evals'[s].pc = "resize")]_vars
  /\ [][\A s \in Slots :
          (SharpOnload(s, TRUE) /\ YieldsBelowFloor(evals[s].still))
            => (lastOp' = "sharp:blurry" /\ evals'[s].pc = "idle")]_vars
  /\ [][\A s \in Slots :
          ResizeOnload(s, TRUE) =>
            /\ Accepted'
            /\ capturedImage' = resizeImage(evals[s].still, TRUE)]_vars
  /\ [][\A s \in Slots :
          (evals[s].pc # "idle" /\ evals'[s] # evals[s])
            => (SharpLoad \/ SharpError \/ ResizeLoad \/ ResizeError)]_vars

\* an artifact has just been accepted although the BrightnessScore, at or
\* above 25 at the trigger, had dropped below 25 during the evaluation
C24_Witness ==
  /\ lastOp = "resize:accepted"
  /\ Accepted
  /\ DarkLevel

\* how many of the three controller states hold
StatesHeld ==
  Cardinality({ n \in {"Live", "Evaluating", "Accepted"} :
                  \/ n = "Live" /\ Live
                  \/ n = "Evaluating" /\ Evaluating
                  \/ n = "Accepted" /\ Accepted })

\* C25: in every reachable state the controller is in exactly one of Live,
\* Evaluating and Accepted: while an artifact is held the busy flag is not
\* set and the blur message is not set, and a capture trigger changes the
\* controller only when issued in Live.
C25_ExactlyOneState ==
  /\ [](StatesHeld = 1)
  /\ [](Accepted => (~processing /\ ~blurWarning))
  /\ [](Accepted => InFlight = {})
  /\ [][(Capture /\ ctrl' # ctrl) => Live]_vars

\* the first artifact is held: neither busy nor warned
C25_Witness ==
  /\ Accepted
  /\ captureCount = 1
  /\ lastOp = "resize:accepted"
  /\ ~processing
  /\ ~blurWarning

\* C26: the brightness gate is open by default. The BrightnessScore is 255
\* in the initial state and stays 255 until a poll has sampled a frame; the
\* sampler reports 255 when it cannot acquire a scratch surface; so a
\* capture trigger issued before any frame has been measured (not busy, a
\* frame available) starts an evaluation.
C26_GateOpenByDefault ==
  /\ brightness = DOf(255)
  /\ [](~measured => (brightness = DOf(255) /\ ~tooDark))
  /\ [][\A frame \in Frames :
          (PollTick(frame, FALSE) /\ lastOp' = "poll:sampled")
            => (brightness' = DOf(255) /\ measured' = measured)]_vars
  /\ [][(Capture /\ ~measured /\ ~processing /\ videoReady)
          => (lastOp' = "capture:started" /\ Evaluating')]_vars

\* an evaluation was started although no frame has ever been measured
C26_Witness ==
  /\ lastOp = "capture:started"
  /\ ~measured
  /\ Evaluating
  /\ brightness = DOf(255)

\* what follows the stem of a name whose extension is .png, .jpg, .jpeg or
\* .webp, the letters in either case
ImageTails == { ".png", ".jpg", ".jpeg", ".webp", ".JPEG" }

\* C21: whatever the directory holds, the gallery listing answers success
\* with exactly the stored files whose extension (letters in either case) is
\* .png, .jpg, .jpeg or .webp, each once with its reference, size and
\* creation time, newest first (creation times never increase along the
\* list); when the uploads directory does not exist it answers success with
\* an empty list. Stated for requests on which stat succeeds.
C21_GalleryListing ==
  [][\A files \in Orders(uploads) :
       GalleryGET(files, TRUE) =>
         /\ galleryResponse'.status = 200
         /\ galleryResponse'.success
         /\ IF ~uploadsDir THEN galleryResponse'.images = <<>>
            ELSE LET images == galleryResponse'.images
                     shown == { f \in uploads : f.name.ext \in ImageTails }
                 IN /\ Len(images) = Cardinality(shown)
                    /\ { images[i] : i \in 1..Len(images) }
                         = { [filename |-> f.name,
                              url |-> <<"/uploads/", f.name>>,
                              size |-> f.size,
                              createdAt |-> f.created] : f \in shown }
                    /\ \A i, j \in 1..Len(images) :
                         i < j => images[i].createdAt >= images[j].createdAt
     ]_vars

\* a listing of three files of more than one age, from a directory that
\* also holds a file that is not listed
C21_Witness ==
  /\ galleryResponse.status = 200
  /\ Len(galleryResponse.images) = 3
  /\ galleryResponse.images[1].createdAt > galleryResponse.images[3].createdAt
  /\ \E f \in uploads : f.name.ext = ".txt"
  /\ \E f \in uploads : f.name.ext = ".JPEG"

\* C27: every file stored by a successful upload is named with a fresh
\* identifier followed by the extension mapped from its type (.png, .jpg or
\* .webp); no successful upload overwrites or removes a file stored before;
\* and every such file appears in every later gallery listing.
C27_StoredFilesListed ==
  /\ [][\A req \in UploadRequests, fsOk \in BOOLEAN :
          (UploadPOST(req, fsOk) /\ uploadResponse'.status = 201) =>
            /\ uploads \subseteq uploads'
            /\ \E f \in uploads' \ uploads :
                 /\ uploads' = uploads \cup {f}
                 /\ \A g \in uploads : g.name # f.name
                 /\ f.name.ext \in { ".png", ".jpg", ".webp" }
                 /\ req.type \in DOMAIN ALLOWED_TYPES
                 /\ f.name.ext = ALLOWED_TYPES[req.type]]_vars
  /\ [][\A files \in Orders(uploads) :
          (GalleryGET(files, TRUE) /\ uploadsDir) =>
            \A f \in Written :
              \E i \in 1..Len(galleryResponse'.images) :
                galleryResponse'.images[i].filename = f.name]_vars

====
